---- MODULE Spec2Model ----
(***************************************************************************)
(* A model of bpad (Build-Package-Apply-Deploy): the CLI verbs of          *)
(* bpad/cli.py, the Deployment lifecycle dispatcher of bpad/deployment.py, *)
(* the Component helpers of bpad/component.py and exec_cmd of bpad/util.py.*)
(*                                                                         *)
(* Three specifications share the module:                                  *)
(*   Spec      a process calling Deployment methods or running a CLI verb  *)
(*   SpecLoad  CLI._load_deployments reading a manifest                    *)
(*   SpecEnv   the static helpers of Component                             *)
(***************************************************************************)
EXTENDS Integers, Sequences, FiniteSets, TLC

VARIABLES
    dirs,         \* the directories that exist (os.path.isdir, os.chdir)
    deployments,  \* CLI.deployments: name -> Deployment
    mfa_arn,      \* whether the MFA_DEVICE_ARN environment variable is set
    cwd,          \* the process working directory
    phase,        \* "ready" | "returned" (a Deployment method ended) | "exited"
    last,         \* what the last call did: commands, component calls, logs, error
    \* SpecLoad
    BASE_DIR,     \* cli.BASE_DIR, from the BPAD_TARGET environment variable
    manifest,     \* deployments.yml: "missing", "malformed" or the records declared
    cli,          \* the CLI object under construction, constructed or failed
    found,        \* what the last lookup self.deployments[name] gave
    \* SpecEnv
    environ,      \* os.environ: variable name -> string
    helper        \* the last call of a Component helper: arguments and outcome

mainVars == <<dirs, deployments, mfa_arn, cwd, phase, last>>
loadVars == <<BASE_DIR, manifest, cli, found>>
envVars == <<environ, helper>>

vars == <<mainVars, loadVars, envVars>>

(***************************************************************************)
(* Bounds                                                                  *)
(***************************************************************************)
\* The largest number of components of a deployment.
MaxComponents == 2

(***************************************************************************)
(* Values                                                                  *)
(***************************************************************************)
\* Deployment names a manifest declares; "qa" is never declared.
DeclaredNames == {"dev", "prod"}
ArgNames == DeclaredNames \cup {"qa"}

\* Two provisioning-output mappings `terraform output -json` may print: the
\* infrastructure state may change between two queries.
Mappings == {"m1", "m2"}

\* A directory: the directory the process starts in, a deployment's, a component's.
Home == [dep |-> "", comp |-> 0]
DepDir(d) == [dep |-> d, comp |-> 0]
CompDir(d, i) == [dep |-> d, comp |-> i]

NoExc == "none"

\* The provisioning output query (deployment.py, tf_outputs).
OutputQuery == "terraform output -json"

\* What an external process does: its exit status, whether its output is JSON,
\* and (for the output query) the mapping it prints.
ProcOutcomes == [rc : {0, 1}, json : BOOLEAN, m : Mappings]

\* What one iteration of a component loop meets: the output query's outcome
\* (deploy and undeploy only) and whether the component's own operation raises.
StepOutcomes == [q : ProcOutcomes, c : {"ok", "fail"}]

\* The effects of a call, accumulated in program order.
\*   cmds     the external commands run, in order
\*   queries  what each output query run returned ("none": it failed)
\*   calls    the component operations invoked, in order
\*   failed   the index of the component whose operation raised (0: none)
\*   logs     the error-level log records
\*   exc      the exception the call ends with
EmptyRun == [cmds |-> <<>>, queries |-> <<>>, calls |-> <<>>, failed |-> 0,
             logs |-> <<>>, exc |-> NoExc]

LogEntry(src, kind, detail) == [src |-> src, kind |-> kind, detail |-> detail]

(***************************************************************************)
(* bpad/util.py                                                            *)
(***************************************************************************)
\* exec_cmd(cmd, check_return=True, ...): subprocess.run with check=True; a
\* non-zero exit is logged at error level and raised as CalledProcessError.
exec_cmd(cmd, rc) ==
    IF rc = 0
    THEN [exc |-> NoExc, logs |-> <<>>]
    ELSE [exc |-> "CalledProcessError",
          logs |-> <<LogEntry("util", "CalledProcessError", {cmd})>>]

(***************************************************************************)
(* bpad/deployment.py                                                      *)
(***************************************************************************)
\* os.chdir(target): enters an existing directory, else FileNotFoundError.
os_chdir(cur, target) ==
    IF target \in dirs
    THEN [cwd |-> target, exc |-> NoExc]
    ELSE [cwd |-> cur, exc |-> "FileNotFoundError"]

\* Whether exception e has a `message` attribute, which the except clauses
\* format into their log line.  No Python 3 exception raised here
\* (CalledProcessError, JSONDecodeError, FileNotFoundError) has one.
has_message(e) == FALSE

\* except Exception as e: logger.error(f"... {e.message}"); raise e
\* The f-string is evaluated before logger.error is called: when e.message
\* does not exist the AttributeError replaces e and nothing is logged.
except_log_raise(e, what, self) ==
    IF e = NoExc
    THEN [exc |-> NoExc, logs |-> <<>>]
    ELSE IF has_message(e)
         THEN [exc |-> e, logs |-> <<LogEntry("deployment", what, {self.name})>>]
         ELSE [exc |-> "AttributeError", logs |-> <<>>]

\* finally: os.chdir(prev_cwd) -- without it the directory entered is kept.
finally_skipped(prev_cwd, now) == now

\* finally: os.chdir(prev_cwd)
finally_chdir(prev_cwd, now) == prev_cwd

\* The body shared by Deployment.apply, Deployment.destroy and the tf_outputs
\* property: chdir, exec_cmd, (json.loads), except, finally.
\*   parse: whether stdout is parsed as JSON (tf_outputs only).
terraform(self, cur, cmd, parse, out) ==
    LET prev_cwd == cur
        cd == os_chdir(cur, self.path)
        ran == cd.exc = NoExc
        run == IF ran THEN exec_cmd(cmd, out.rc) ELSE [exc |-> NoExc, logs |-> <<>>]
        e == IF ~ran THEN cd.exc
             ELSE IF run.exc # NoExc THEN run.exc
             ELSE IF parse /\ ~out.json THEN "JSONDecodeError"
             ELSE NoExc
        h == except_log_raise(e, cmd, self)
    IN [cwd |-> finally_chdir(prev_cwd, cd.cwd),
        cmds |-> IF ran THEN <<cmd>> ELSE <<>>,
        logs |-> run.logs \o h.logs,
        orig |-> e,
        exc |-> h.exc,
        value |-> IF e = NoExc THEN out.m ELSE "none"]

\* Deployment.tf_outputs (property getter)
tf_outputs(self, cur, out) == terraform(self, cur, OutputQuery, TRUE, out)

\* A run extended by one call of terraform().
AddTerraform(run, t) ==
    [run EXCEPT !.cmds = @ \o t.cmds, !.logs = @ \o t.logs, !.exc = t.exc]

\* Deployment.apply
Deployment_apply(self, cur, out) ==
    LET t == terraform(self, cur, "terraform apply", FALSE, out)
    IN [cwd |-> t.cwd, run |-> AddTerraform(EmptyRun, t), orig |-> t.orig]

\* Deployment.destroy
Deployment_destroy(self, cur, out) ==
    LET t == terraform(self, cur, "terraform destroy", FALSE, out)
    IN [cwd |-> t.cwd, run |-> AddTerraform(EmptyRun, t), orig |-> t.orig]

\* bootstrap doing nothing and returning.
bootstrap_returns(self, cur) == [cwd |-> cur, run |-> EmptyRun, orig |-> NoExc]

\* Deployment.bootstrap: raise NotImplementedError
Deployment_bootstrap(self, cur) ==
    [cwd |-> cur, run |-> [EmptyRun EXCEPT !.exc = "NotImplementedError"], orig |-> NoExc]

\* Deployment.unbootstrap: raise NotImplementedError
Deployment_unbootstrap(self, cur) ==
    [cwd |-> cur, run |-> [EmptyRun EXCEPT !.exc = "NotImplementedError"], orig |-> NoExc]

\* component.<op>(...): the base class's operations do nothing; a concrete
\* subclass may raise.  The call is recorded with the outputs it was handed.
component_call(run, i, op, tf, c) ==
    [run EXCEPT !.calls = Append(@, [comp |-> i, op |-> op, tf |-> tf]),
                !.failed = IF c = "fail" THEN i ELSE @,
                !.exc = IF c = "fail" THEN "ComponentError" ELSE NoExc]

\* The loop of build and package going on after a component raised.
RECURSIVE component_loop_no_abort(_, _, _, _, _)
component_loop_no_abort(self, op, i, outs, run) ==
    IF i > Len(self.components)
    THEN run
    ELSE LET r == component_call(run, i, op, "none", outs[i].c)
         IN component_loop_no_abort(self, op, i + 1, outs,
                [r EXCEPT !.failed = IF run.failed # 0 THEN run.failed ELSE @,
                          !.exc = IF run.exc # NoExc THEN run.exc ELSE @])

\* for component in self.components: component.<op>(self.name, ...)
\* (Deployment.build, Deployment.package): from component i on.
RECURSIVE component_loop(_, _, _, _, _)
component_loop(self, op, i, outs, run) ==
    IF i > Len(self.components)
    THEN run
    ELSE LET r == component_call(run, i, op, "none", outs[i].c)
         IN IF r.exc # NoExc THEN r
            ELSE component_loop(self, op, i + 1, outs, r)

\* The loop of deploy and undeploy handing every component one mapping tf.
RECURSIVE shared_outputs_loop(_, _, _, _, _, _)
shared_outputs_loop(self, op, i, outs, tf, run) ==
    IF i > Len(self.components)
    THEN run
    ELSE LET r == component_call(run, i, op, tf, outs[i].c)
         IN IF r.exc # NoExc THEN r
            ELSE shared_outputs_loop(self, op, i + 1, outs, tf, r)

\* deploy and undeploy reading self.tf_outputs once, before the loop.
outputs_loop_once(self, op, i, outs, cur, run) ==
    LET t == terraform(self, cur, OutputQuery, TRUE,
                       IF Len(outs) > 0 THEN outs[1].q
                       ELSE [rc |-> 0, json |-> TRUE, m |-> "m1"])
        r1 == [run EXCEPT !.cmds = @ \o t.cmds, !.logs = @ \o t.logs, !.exc = t.exc,
                          !.queries = IF t.cmds # <<>> THEN Append(@, t.value) ELSE @]
    IN IF t.exc # NoExc
       THEN [cwd |-> t.cwd, run |-> r1, orig |-> t.orig]
       ELSE [cwd |-> t.cwd, run |-> shared_outputs_loop(self, op, i, outs, t.value, r1),
             orig |-> NoExc]

\* deploy and undeploy calling the component although its query failed.
RECURSIVE outputs_loop_ignoring_query(_, _, _, _, _, _)
outputs_loop_ignoring_query(self, op, i, outs, cur, run) ==
    IF i > Len(self.components)
    THEN [cwd |-> cur, run |-> run, orig |-> NoExc]
    ELSE LET t == tf_outputs(self, cur, outs[i].q)
             r1 == [AddTerraform(run, t) EXCEPT
                      !.queries = IF t.cmds # <<>> THEN Append(@, t.value) ELSE @]
             r2 == component_call(r1, i, op, t.value, outs[i].c)
         IN IF t.exc # NoExc
            THEN [cwd |-> t.cwd, run |-> [r2 EXCEPT !.exc = t.exc, !.failed = 0],
                  orig |-> t.orig]
            ELSE IF r2.exc # NoExc
                 THEN [cwd |-> t.cwd, run |-> r2, orig |-> NoExc]
                 ELSE outputs_loop_ignoring_query(self, op, i + 1, outs, t.cwd, r2)

\* for component in self.components:
\*     component.<op>(self.name, self.tf_outputs)
\* (Deployment.deploy, Deployment.undeploy): the argument self.tf_outputs is
\* evaluated, by the property getter, in every iteration before the call.
RECURSIVE outputs_loop(_, _, _, _, _, _)
outputs_loop(self, op, i, outs, cur, run) ==
    IF i > Len(self.components)
    THEN [cwd |-> cur, run |-> run, orig |-> NoExc]
    ELSE LET t == tf_outputs(self, cur, outs[i].q)
             r1 == [AddTerraform(run, t) EXCEPT
                      !.queries = IF t.cmds # <<>> THEN Append(@, t.value) ELSE @]
         IN IF t.exc # NoExc
            THEN [cwd |-> t.cwd, run |-> r1, orig |-> t.orig]
            ELSE LET r2 == component_call(r1, i, op, t.value, outs[i].c)
                 IN IF r2.exc # NoExc
                    THEN [cwd |-> t.cwd, run |-> r2, orig |-> NoExc]
                    ELSE outputs_loop(self, op, i + 1, outs, t.cwd, r2)

\* Deployment.build
Deployment_build(self, cur, outs) ==
    [cwd |-> cur, run |-> component_loop(self, "build", 1, outs, EmptyRun), orig |-> NoExc]

\* Deployment.package
Deployment_package(self, cur, outs) ==
    [cwd |-> cur, run |-> component_loop(self, "package", 1, outs, EmptyRun), orig |-> NoExc]

\* Deployment.deploy
Deployment_deploy(self, cur, outs) == outputs_loop(self, "deploy", 1, outs, cur, EmptyRun)

\* Deployment.undeploy
Deployment_undeploy(self, cur, outs) == outputs_loop(self, "undeploy", 1, outs, cur, EmptyRun)

\* The Deployment methods, by name.
Methods == {"apply", "destroy", "bootstrap", "unbootstrap", "build", "package",
            "deploy", "undeploy", "tf_outputs"}

\* Reading deployment.tf_outputs, as a call of its own.
Deployment_tf_outputs(self, cur, out) ==
    LET t == tf_outputs(self, cur, out)
    IN [cwd |-> t.cwd,
        run |-> [AddTerraform(EmptyRun, t) EXCEPT
                   !.queries = IF t.cmds # <<>> THEN <<t.value>> ELSE <<>>],
        orig |-> t.orig]

(***************************************************************************)
(* bpad/cli.py                                                             *)
(***************************************************************************)
\* The verbs of the CLI; each lifecycle verb calls the Deployment method of
\* the same name.
Verbs == {"apply", "bootstrap", "build", "deploy", "destroy", "package",
          "unbootstrap", "undeploy", "aws_mfa_login"}

\* The fields of the session-token reply the configure commands read, in the
\* order they read them.
CredentialFields == <<"AccessKeyId", "SecretAccessKey", "SessionToken">>

\* What the identity CLI does in aws_mfa_login: the exit status of each of the
\* four commands, whether the session-token reply is JSON and which of the
\* credential fields it holds.
AwsOutcomes ==
    [rcs : [1..4 -> {0, 1}], json : BOOLEAN,
     fields : SUBSET {CredentialFields[n] : n \in 1..Len(CredentialFields)}]

\* _check_paths looking at the deployment's own path only.
check_paths_deployment_only(deployment) == deployment.path \in dirs

\* CLI._check_paths: os.path.isdir of the deployment's path and of every
\* component's path; FALSE stands for the logged error and SystemExit(1).
check_paths(deployment) ==
    /\ deployment.path \in dirs
    /\ \A i \in 1..Len(deployment.components) : deployment.components[i].path \in dirs

\* The message naming only the first of the keys.
supported_values_first ==
    IF DOMAIN deployments = {} THEN {} ELSE {CHOOSE d \in DOMAIN deployments : TRUE}

\* except KeyError: the message names the keys of self.deployments.
supported_values == DOMAIN deployments

\* try: self._check_paths(self.deployments[deployment_name])
\* except KeyError as e: logger.error(...); raise SystemExit(1)
\* The head of every verb.  exit 0 stands for "the verb goes on".
cli_guard(deployment_name) ==
    IF deployment_name \notin DOMAIN deployments
    THEN [exit |-> 1,
          logs |-> <<LogEntry("cli", "invalid_deployment", supported_values)>>]
    ELSE IF ~check_paths(deployments[deployment_name])
         THEN [exit |-> 1,
               logs |-> <<LogEntry("cli", "path_not_found", {deployment_name})>>]
         ELSE [exit |-> 0, logs |-> <<>>]

\* AWS_AUTH_PERSISTENT_PROFILE = f"{deployment_name}-auth"
AuthProfile(deployment_name) == [name |-> deployment_name, suffix |-> "-auth"]

\* The profile named as the deployment.
Profile(deployment_name) == [name |-> deployment_name, suffix |-> ""]

\* The four commands aws_mfa_login builds, in program order:
\*   aws --profile <name>-auth sts get-session-token ...
\*   aws --profile <name> configure set aws_access_key_id ...
\*   aws --profile <name> configure set aws_secret_access_key ...
\*   aws --profile <name> configure set aws_session_token ...
AwsCmds(deployment_name) ==
    <<[profile |-> AuthProfile(deployment_name), args |-> "sts get-session-token"],
      [profile |-> Profile(deployment_name), args |-> "configure set aws_access_key_id"],
      [profile |-> Profile(deployment_name), args |-> "configure set aws_secret_access_key"],
      [profile |-> Profile(deployment_name), args |-> "configure set aws_session_token"]>>

\* The commands of aws_mfa_login going on after one of them failed.
RECURSIVE aws_cmds_no_stop(_, _, _, _)
aws_cmds_no_stop(i, deployment_name, aws, run) ==
    IF i > Len(AwsCmds(deployment_name))
    THEN run
    ELSE LET cmd == AwsCmds(deployment_name)[i]
             x == exec_cmd(cmd, aws.rcs[i])
         IN aws_cmds_no_stop(i + 1, deployment_name, aws,
                [run EXCEPT !.cmds = Append(@, cmd), !.logs = @ \o x.logs,
                            !.exc = IF @ # NoExc THEN @ ELSE x.exc])

\* The statements of aws_mfa_login from command i on: the f-string building
\* command i reads its field of session_credentials['Credentials'] (KeyError
\* when the reply lacks it), exec_cmd runs the command, and json.loads follows
\* the first.
RECURSIVE aws_cmds(_, _, _, _)
aws_cmds(i, deployment_name, aws, run) ==
    IF i > Len(AwsCmds(deployment_name))
    THEN run
    ELSE IF i > 1 /\ CredentialFields[i - 1] \notin aws.fields
    THEN [run EXCEPT !.exc = "KeyError"]
    ELSE LET cmd == AwsCmds(deployment_name)[i]
             x == exec_cmd(cmd, aws.rcs[i])
             r == [run EXCEPT !.cmds = Append(@, cmd), !.logs = @ \o x.logs,
                              !.exc = IF x.exc # NoExc THEN x.exc
                                      ELSE IF i = 1 /\ ~aws.json THEN "JSONDecodeError"
                                      ELSE NoExc]
         IN IF r.exc # NoExc THEN r ELSE aws_cmds(i + 1, deployment_name, aws, r)

\* CLI.aws_mfa_login after the guard.
aws_mfa_login(deployment_name, aws) ==
    IF ~mfa_arn
    THEN [exit |-> 1,
          run |-> [EmptyRun EXCEPT !.logs = <<LogEntry("cli", "mfa_arn_not_set", {})>>]]
    ELSE LET r == aws_cmds(1, deployment_name, aws, EmptyRun)
         IN [exit |-> IF r.exc = NoExc THEN 0 ELSE 1, run |-> r]

\* What a call leaves for the claims to read.
Record(kind, method, name, pre, r, exit, dcalls, orig) ==
    [kind |-> kind, method |-> method, name |-> name, pre_cwd |-> pre,
     cmds |-> r.cmds, queries |-> r.queries, calls |-> r.calls,
     failed |-> r.failed, logs |-> r.logs,
     exc |-> r.exc, orig |-> orig, exit |-> exit, dcalls |-> dcalls]

NoCall == Record("none", "none", "none", Home, EmptyRun, 0, <<>>, NoExc)

\* One lifecycle verb, from fire's dispatch to the end of the process: the
\* guard, then self.deployments[deployment_name].<verb>(), whose effects are
\* d; an uncaught exception ends the process with status 1.
cli_verb(verb, deployment_name, d) ==
    LET g == cli_guard(deployment_name)
    IN IF g.exit # 0
       THEN [cwd |-> cwd,
             rec |-> Record("cli", verb, deployment_name, cwd,
                            [EmptyRun EXCEPT !.logs = g.logs], 1, <<>>, NoExc)]
       ELSE [cwd |-> d.cwd,
             rec |-> Record("cli", verb, deployment_name, cwd, d.run,
                            IF d.run.exc = NoExc THEN 0 ELSE 1, <<verb>>, d.orig)]

\* CLI.aws_mfa_login, from fire's dispatch to the end of the process.
cli_aws_mfa_login(deployment_name, aws) ==
    LET g == cli_guard(deployment_name)
    IN IF g.exit # 0
       THEN [cwd |-> cwd,
             rec |-> Record("cli", "aws_mfa_login", deployment_name, cwd,
                            [EmptyRun EXCEPT !.logs = g.logs], 1, <<>>, NoExc)]
       ELSE LET a == aws_mfa_login(deployment_name, aws)
            IN [cwd |-> cwd,
                rec |-> Record("cli", "aws_mfa_login", deployment_name, cwd, a.run,
                               a.exit, <<>>, NoExc)]

(***************************************************************************)
(* bpad/component.py                                                       *)
(***************************************************************************)
\* str.upper(), character by character, on the letters the keys are made of.
upper_char(c) ==
    CASE c = "f" -> "F"
      [] c = "o" -> "O"
      [] c = "b" -> "B"
      [] c = "a" -> "A"
      [] c = "r" -> "R"
      [] OTHER -> c

str_upper(str) == [i \in 1..Len(str) |-> upper_char(str[i])]

\* str(value) of a str, an int (one digit here) or a bool.
Digits == <<"0", "1", "2", "3", "4", "5", "6", "7", "8", "9">>

py_str(value) ==
    CASE value.type = "str" -> value.v
      [] value.type = "int" -> Digits[value.v + 1]
      [] value.type = "bool" -> IF value.v THEN "True" ELSE "False"

\* A dict is the sequence of its items in insertion order, keys distinct; an
\* argument is a dict or a list, or None: [none |-> TRUE].
None == [none |-> TRUE, items |-> <<>>]
Some(items) == [none |-> FALSE, items |-> items]

\* `if x:` of a dict or list argument: None and the empty one are false.
truthy(arg) == ~arg.none /\ arg.items # <<>>

\* os.environ[name] = value: a value that is no str raises TypeError.
environ_set(env, name, value) ==
    IF value.type = "str"
    THEN [exc |-> NoExc,
          env |-> [n \in DOMAIN env \cup {name} |-> IF n = name THEN value.v ELSE env[n]]]
    ELSE [exc |-> "TypeError", env |-> env]

\* [x.upper() for x in tf_outputs.keys()], without the upper().
keys_as_given(outputs) == {outputs.items[j].k : j \in 1..Len(outputs.items)}

\* [x.upper() for x in tf_outputs.keys()]
tf_output_keys_upper(outputs) ==
    {str_upper(outputs.items[j].k) : j \in 1..Len(outputs.items)}

\* Component._check_tfoutputs.  msg_required: the required keys the KeyError's
\* message prints (it prints tf_outputs and the whole required_keys list).
check_tfoutputs(outputs, required_keys) ==
    IF ~truthy(required_keys)
    THEN [exc |-> NoExc, msg_required |-> <<>>]
    ELSE IF outputs.none
         THEN [exc |-> "AttributeError", msg_required |-> <<>>]
         ELSE IF \E i \in 1..Len(required_keys.items) :
                    str_upper(required_keys.items[i]) \notin tf_output_keys_upper(outputs)
              THEN [exc |-> "KeyError", msg_required |-> required_keys.items]
              ELSE [exc |-> NoExc, msg_required |-> <<>>]

\* for key in keys_values: os.environ[key.upper()] = keys_values[key]
\* from item i on; the first TypeError ends the loop, what was set stays.
RECURSIVE set_env_loop(_, _, _)
set_env_loop(env, items, i) ==
    IF i > Len(items)
    THEN [exc |-> NoExc, env |-> env]
    ELSE LET x == environ_set(env, str_upper(items[i].k), items[i].v)
         IN IF x.exc # NoExc THEN x ELSE set_env_loop(x.env, items, i + 1)

\* Component._set_env_vars
set_env_vars(env, keys_values) ==
    IF truthy(keys_values)
    THEN set_env_loop(env, keys_values.items, 1)
    ELSE [exc |-> NoExc, env |-> env]

\* for tf_output_key in tf_outputs:
\*     os.environ[tf_output_key.upper()] = str(tf_outputs[tf_output_key]["value"])
RECURSIVE set_env_tf_loop(_, _, _)
set_env_tf_loop(env, items, i) ==
    IF i > Len(items)
    THEN [exc |-> NoExc, env |-> env]
    ELSE LET x == environ_set(env, str_upper(items[i].k),
                              [type |-> "str", v |-> py_str(items[i].v.value)])
         IN IF x.exc # NoExc THEN x ELSE set_env_tf_loop(x.env, items, i + 1)

\* Component._set_env_vars_from_tfoutputs
set_env_vars_from_tfoutputs(env, outputs) ==
    IF truthy(outputs)
    THEN set_env_tf_loop(env, outputs.items, 1)
    ELSE [exc |-> NoExc, env |-> env]

NoHelper == [fn |-> "none", arg |-> None, required |-> None, exc |-> NoExc,
             msg_required |-> <<>>]

(***************************************************************************)
(* bpad/cli.py: loading the manifest                                       *)
(***************************************************************************)
\* A string is a sequence of characters here, so that joining and suffix
\* tests are computed.  os.sep on POSIX:
Sep == "/"

\* str.endswith(os.sep)
endswith(str, c) == Len(str) > 0 /\ str[Len(str)] = c

\* os.sep.join((a, b))
sep_join(a, b) == a \o <<Sep>> \o b

\* if len(BASE_DIR) > 0 and not BASE_DIR.endswith(os.sep):
\*     dep.path = os.sep.join((BASE_DIR, dep.path))
resolve_path(base, path) ==
    IF Len(base) > 0 /\ ~endswith(base, Sep) THEN sep_join(base, path) ELSE path

\* The classes importlib and getattr resolve; any other name raises.
Importable == {"app.Web", "app.Db"}

\* ComponentDefinition.get_instance: class_ref(self.path)
get_instance(def) ==
    IF def.class_name \in Importable
    THEN [exc |-> NoExc, obj |-> [cls |-> def.class_name, path |-> def.path]]
    ELSE [exc |-> "AttributeError", obj |-> [cls |-> "none", path |-> <<>>]]

\* The instances put in front of the list instead of behind it.
RECURSIVE instances_prepended(_, _, _)
instances_prepended(defs, i, comps) ==
    IF i > Len(defs)
    THEN [exc |-> NoExc, comps |-> comps]
    ELSE LET g == get_instance(defs[i])
         IN IF g.exc # NoExc THEN [exc |-> g.exc, comps |-> <<>>]
            ELSE instances_prepended(defs, i + 1, <<g.obj>> \o comps)

\* comps = []; for comp in dep.components: comps.append(comp.get_instance())
RECURSIVE instances(_, _, _)
instances(defs, i, comps) ==
    IF i > Len(defs)
    THEN [exc |-> NoExc, comps |-> comps]
    ELSE LET g == get_instance(defs[i])
         IN IF g.exc # NoExc THEN [exc |-> g.exc, comps |-> <<>>]
            ELSE instances(defs, i + 1, Append(comps, g.obj))

\* for dep in deployments: ... (the loop of _load_deployments, from record j
\* on).  A loaded Deployment is the manifest's record changed in place:
\* decl is the record it is.
RECURSIVE load_records(_, _, _, _)
load_records(records, base, j, deps) ==
    IF j > Len(records)
    THEN [exc |-> NoExc, deps |-> deps]
    ELSE LET c == instances(records[j].components, 1, <<>>)
         IN IF c.exc # NoExc THEN [exc |-> c.exc, deps |-> <<>>]
            ELSE load_records(records, base, j + 1,
                    Append(deps, [name |-> records[j].name,
                                  path |-> resolve_path(base, records[j].path),
                                  components |-> c.comps,
                                  decl |-> j]))

\* CLI._load_deployments: open, yaml.load, the loop.
load_deployments(file, base) ==
    CASE file.file = "missing" -> [exc |-> "FileNotFoundError", deps |-> <<>>]
      [] file.file = "malformed" -> [exc |-> "YAMLError", deps |-> <<>>]
      [] OTHER -> load_records(file.records, base, 1, <<>>)

\* The mapping keeping, for a name declared twice, the entry it has already.
RECURSIVE by_name_first_wins(_, _, _)
by_name_first_wins(deps, j, map) ==
    IF j > Len(deps)
    THEN map
    ELSE by_name_first_wins(deps, j + 1,
            [n \in DOMAIN map \cup {deps[j].name} |->
                IF n \in DOMAIN map THEN map[n] ELSE deps[j]])

\* for dep in deployments: self.deployments[dep.name] = dep
RECURSIVE by_name(_, _, _)
by_name(deps, j, map) ==
    IF j > Len(deps)
    THEN map
    ELSE by_name(deps, j + 1,
            [n \in DOMAIN map \cup {deps[j].name} |->
                IF n = deps[j].name THEN deps[j] ELSE map[n]])

\* CLI.__init__
cli_init(file, base) ==
    LET l == load_deployments(file, base)
    IN IF l.exc # NoExc
       THEN [state |-> "failed", exc |-> l.exc, deployments |-> <<>>]
       ELSE [state |-> "constructed", exc |-> NoExc,
             deployments |-> by_name(l.deps, 1, <<>>)]

\* main: fire.Fire(CLI()).  CLI() is evaluated with no handler around it: an
\* exception of __init__ leaves main uncaught, the interpreter prints its
\* traceback and ends the process with status 1; no log record is made.
main(file, base) ==
    LET c == cli_init(file, base)
    IN [cli |-> c,
        rec |-> Record("cli", "main", "none", Home, [EmptyRun EXCEPT !.exc = c.exc],
                       IF c.exc = NoExc THEN 0 ELSE 1, <<>>, c.exc)]

NoCli == [state |-> "none", exc |-> NoExc, deployments |-> <<>>]

NoDep == [name |-> "none", path |-> <<>>, components |-> <<>>, decl |-> 0]

NotFound == [state |-> "none", name |-> "none", dep |-> NoDep]

(***************************************************************************)
(* The process                                                             *)
(***************************************************************************)
\* The variables of the other two specifications, at rest.
LoadIdle ==
    /\ BASE_DIR = <<>>
    /\ manifest = [file |-> "missing", records |-> <<>>]
    /\ cli = NoCli
    /\ found = NotFound

EnvIdle ==
    /\ environ = <<>>
    /\ helper = NoHelper

\* The deployments a manifest may leave loaded: "dev" with 0..MaxComponents
\* components and, or not, "prod" with one.
MkDeployment(d, n) ==
    [name |-> d, path |-> DepDir(d), components |-> [i \in 1..n |-> [path |-> CompDir(d, i)]]]

Loaded(n, withProd) ==
    [d \in (IF withProd THEN {"dev", "prod"} ELSE {"dev"}) |->
        IF d = "dev" THEN MkDeployment("dev", n) ELSE MkDeployment("prod", 1)]

DevDirs(n) == {DepDir("dev")} \cup {CompDir("dev", i) : i \in 1..n}

Init ==
    /\ \E n \in 0..MaxComponents, withProd \in BOOLEAN :
          /\ deployments = Loaded(n, withProd)
          /\ \E present \in SUBSET DevDirs(n) :
                dirs = {Home, DepDir("prod"), CompDir("prod", 1)} \cup present
    /\ mfa_arn \in BOOLEAN
    /\ cwd = Home
    /\ phase = "ready"
    /\ last = NoCall
    /\ LoadIdle
    /\ EnvIdle

Outs(self) == [1..Len(self.components) -> StepOutcomes]

\* The outcomes of the iterations of a verb's loop: none when the name is
\* unknown.
VerbOuts(name) == IF name \in DOMAIN deployments THEN Outs(deployments[name]) ELSE {<<>>}

\* A Deployment method called by a program ended with the effects d.
Returns(method, name, d) ==
    /\ cwd' = d.cwd
    /\ last' = Record("api", method, name, cwd, d.run, 0, <<method>>, d.orig)
    /\ phase' = "returned"
    /\ UNCHANGED <<dirs, deployments, mfa_arn, loadVars, envVars>>

\* A program calls deployment.<method>() on a loaded Deployment.
CallApply ==
    /\ phase = "ready"
    /\ \E name \in DOMAIN deployments, out \in ProcOutcomes :
          Returns("apply", name, Deployment_apply(deployments[name], cwd, out))

CallDestroy ==
    /\ phase = "ready"
    /\ \E name \in DOMAIN deployments, out \in ProcOutcomes :
          Returns("destroy", name, Deployment_destroy(deployments[name], cwd, out))

CallTfOutputs ==
    /\ phase = "ready"
    /\ \E name \in DOMAIN deployments, out \in ProcOutcomes :
          Returns("tf_outputs", name, Deployment_tf_outputs(deployments[name], cwd, out))

CallBootstrap ==
    /\ phase = "ready"
    /\ \E name \in DOMAIN deployments :
          Returns("bootstrap", name, Deployment_bootstrap(deployments[name], cwd))

CallUnbootstrap ==
    /\ phase = "ready"
    /\ \E name \in DOMAIN deployments :
          Returns("unbootstrap", name, Deployment_unbootstrap(deployments[name], cwd))

CallBuild ==
    /\ phase = "ready"
    /\ \E name \in DOMAIN deployments : \E outs \in Outs(deployments[name]) :
          Returns("build", name, Deployment_build(deployments[name], cwd, outs))

CallPackage ==
    /\ phase = "ready"
    /\ \E name \in DOMAIN deployments : \E outs \in Outs(deployments[name]) :
          Returns("package", name, Deployment_package(deployments[name], cwd, outs))

CallDeploy ==
    /\ phase = "ready"
    /\ \E name \in DOMAIN deployments : \E outs \in Outs(deployments[name]) :
          Returns("deploy", name, Deployment_deploy(deployments[name], cwd, outs))

CallUndeploy ==
    /\ phase = "ready"
    /\ \E name \in DOMAIN deployments : \E outs \in Outs(deployments[name]) :
          Returns("undeploy", name, Deployment_undeploy(deployments[name], cwd, outs))

\* The caller goes on to its next statement after a Deployment method ended
\* (normally or with an exception it handled).
Resume ==
    /\ phase = "returned"
    /\ phase' = "ready"
    /\ last' = NoCall
    /\ UNCHANGED <<dirs, deployments, mfa_arn, cwd, loadVars, envVars>>

\* The process ends after its one verb, leaving v.
Exits(v) ==
    /\ cwd' = v.cwd
    /\ last' = v.rec
    /\ phase' = "exited"
    /\ UNCHANGED <<dirs, deployments, mfa_arn, loadVars, envVars>>

\* `bpad <verb> <deployment_name>`
VerbApply ==
    /\ phase = "ready"
    /\ \E name \in ArgNames, out \in ProcOutcomes :
          Exits(cli_verb("apply", name, Deployment_apply(deployments[name], cwd, out)))

VerbDestroy ==
    /\ phase = "ready"
    /\ \E name \in ArgNames, out \in ProcOutcomes :
          Exits(cli_verb("destroy", name, Deployment_destroy(deployments[name], cwd, out)))

VerbBootstrap ==
    /\ phase = "ready"
    /\ \E name \in ArgNames :
          Exits(cli_verb("bootstrap", name, Deployment_bootstrap(deployments[name], cwd)))

VerbUnbootstrap ==
    /\ phase = "ready"
    /\ \E name \in ArgNames :
          Exits(cli_verb("unbootstrap", name, Deployment_unbootstrap(deployments[name], cwd)))

VerbBuild ==
    /\ phase = "ready"
    /\ \E name \in ArgNames : \E outs \in VerbOuts(name) :
          Exits(cli_verb("build", name, Deployment_build(deployments[name], cwd, outs)))

VerbPackage ==
    /\ phase = "ready"
    /\ \E name \in ArgNames : \E outs \in VerbOuts(name) :
          Exits(cli_verb("package", name, Deployment_package(deployments[name], cwd, outs)))

VerbDeploy ==
    /\ phase = "ready"
    /\ \E name \in ArgNames : \E outs \in VerbOuts(name) :
          Exits(cli_verb("deploy", name, Deployment_deploy(deployments[name], cwd, outs)))

VerbUndeploy ==
    /\ phase = "ready"
    /\ \E name \in ArgNames : \E outs \in VerbOuts(name) :
          Exits(cli_verb("undeploy", name, Deployment_undeploy(deployments[name], cwd, outs)))

VerbAwsMfaLogin ==
    /\ phase = "ready"
    /\ \E name \in ArgNames, aws \in AwsOutcomes :
          Exits(cli_aws_mfa_login(name, aws))

Next ==
    \/ CallApply \/ CallDestroy \/ CallTfOutputs \/ CallBootstrap \/ CallUnbootstrap
    \/ CallBuild \/ CallPackage \/ CallDeploy \/ CallUndeploy
    \/ Resume
    \/ VerbApply \/ VerbDestroy \/ VerbBootstrap \/ VerbUnbootstrap
    \/ VerbBuild \/ VerbPackage \/ VerbDeploy \/ VerbUndeploy \/ VerbAwsMfaLogin

Spec == Init /\ [][Next]_vars

(***************************************************************************)
(* Claims about the Deployment methods and the CLI verbs (Spec)            *)
(***************************************************************************)
\* The last call ran Deployment.<method> (called directly or from its verb).
Ran(method) == last.dcalls = <<method>>

RanOutputsLoop == Ran("deploy") \/ Ran("undeploy")

\* The number of output queries the last call ran.
QueryCount == Len(SelectSeq(last.cmds, LAMBDA c : c = OutputQuery))

\* The declared components of the deployment the last call was about.
Declared == deployments[last.name].components

\* C1, as stated, in the case most favourable to it: a call of deploy() or
\* undeploy() that returns normally on a deployment that has components runs
\* the output query exactly once and hands every component that query's
\* mapping.
C1_OneQueryPerCall ==
    (RanOutputsLoop /\ last.exc = NoExc /\ Len(Declared) >= 1) =>
        /\ QueryCount = 1
        /\ \A i \in 1..Len(last.calls) : last.calls[i].tf = last.queries[1]

\* C1, amended: deploy() and undeploy() run the output query once per
\* component they process, right before that component's operation: as many
\* queries as component operations (one more when the last query failed), the
\* number of components in a call that returns normally (none for an empty
\* list), and the i-th component is handed what the i-th query returned.
C1_OneQueryPerComponent ==
    RanOutputsLoop =>
        /\ QueryCount = Len(last.queries)
        /\ Len(last.queries) \in {Len(last.calls), Len(last.calls) + 1}
        /\ \A i \in 1..Len(last.calls) :
              /\ last.calls[i].tf = last.queries[i]
              /\ last.calls[i].tf \in Mappings
        /\ last.exc = NoExc => QueryCount = Len(Declared)

\* C1 witness: deploy() returned normally after two components were handed
\* two different mappings, from two queries.
C1_Witness ==
    /\ Ran("deploy") /\ last.exc = NoExc
    /\ Len(last.calls) = 2 /\ QueryCount = 2
    /\ last.calls[1].tf # last.calls[2].tf

\* C2: after a call of any Deployment method, whatever the provisioning tool
\* did and whether or not the deployment's directory could be entered, the
\* working directory is the one observed right before the call.
C2_CwdRestored ==
    (\E m \in Methods : Ran(m)) => cwd = last.pre_cwd

\* C2 witness: the output query entered the deployment's directory, printed
\* what is no JSON, and the accessor ended with an error.
C2_Witness ==
    /\ Ran("tf_outputs") /\ last.orig = "JSONDecodeError" /\ last.exc # NoExc
    /\ last.cmds = <<OutputQuery>>
    /\ cwd = last.pre_cwd /\ cwd # deployments[last.name].path

\* C3: a verb called with a name that is no key of the loaded deployments
\* ends the process with status 1 after one error record that lists every
\* loaded name; no Deployment method and no external command was invoked.
C3_UnknownNameExits ==
    (last.kind = "cli" /\ last.name \notin DOMAIN deployments) =>
        /\ last.exit = 1
        /\ last.logs = <<LogEntry("cli", "invalid_deployment", DOMAIN deployments)>>
        /\ last.dcalls = <<>> /\ last.cmds = <<>> /\ last.calls = <<>>

\* C3 witness: aws_mfa_login was called for "prod" while "dev" alone is loaded.
C3_Witness ==
    /\ last.kind = "cli" /\ last.method = "aws_mfa_login" /\ last.name = "prod"
    /\ DOMAIN deployments = {"dev"} /\ last.exit = 1

\* Some directory of the deployment the last call named is missing.
SomePathMissing ==
    \/ deployments[last.name].path \notin dirs
    \/ \E i \in 1..Len(Declared) : Declared[i].path \notin dirs

\* C4: a verb called with a known name whose deployment directory, or any
\* component directory, does not exist ends the process with status 1 with no
\* external command run and no Deployment or Component method invoked.
C4_MissingPathExits ==
    (last.kind = "cli" /\ last.name \in DOMAIN deployments /\ SomePathMissing) =>
        /\ last.exit = 1
        /\ last.dcalls = <<>> /\ last.cmds = <<>> /\ last.calls = <<>>

\* C4 witness: deploy was called for a deployment whose own directory and
\* first component directory exist and whose second component's does not.
C4_Witness ==
    /\ last.kind = "cli" /\ last.method = "deploy" /\ last.name = "dev"
    /\ DepDir("dev") \in dirs /\ Len(Declared) = 2
    /\ CompDir("dev", 1) \in dirs /\ CompDir("dev", 2) \notin dirs
    /\ last.exit = 1

RanLoop == Ran("build") \/ Ran("package") \/ RanOutputsLoop

\* The component operations invoked are those of the first k components, in
\* declared order, each once.
InvokedPrefix(k) ==
    /\ Len(last.calls) = k
    /\ \A i \in 1..k : last.calls[i].comp = i /\ last.calls[i].op = last.dcalls[1]

\* C6, as stated, for a deployment whose directories all exist: the
\* operations invoked by build, package, deploy or undeploy are a prefix of
\* the declared order; the whole list when no component fails; components
\* 1..k and an error when component k fails.
C6_PrefixWholeUnlessComponentFails ==
    (RanLoop /\ ~SomePathMissing) =>
        /\ \E k \in 0..Len(Declared) : InvokedPrefix(k)
        /\ last.failed = 0 => InvokedPrefix(Len(Declared))
        /\ last.failed # 0 => InvokedPrefix(last.failed) /\ last.exc # NoExc

\* C6, amended: the operations invoked are a prefix of the declared order;
\* the whole list when the call returns normally, which it does when no
\* component and (deploy, undeploy) no output query fails; components 1..k
\* and an error when component k fails; and, when in deploy or undeploy the
\* output query made for a component fails, only the components before it,
\* the call ending with an error.
C6_PrefixWholeUnlessFailure ==
    RanLoop =>
        /\ \E k \in 0..Len(Declared) : InvokedPrefix(k)
        /\ last.exc = NoExc <=> (last.failed = 0 /\ last.orig = NoExc)
        /\ last.exc = NoExc => InvokedPrefix(Len(Declared))
        /\ last.failed # 0 => InvokedPrefix(last.failed) /\ last.exc # NoExc
        /\ (last.failed = 0 /\ last.orig # NoExc) =>
              /\ RanOutputsLoop
              /\ Len(last.calls) < Len(Declared)
              /\ last.exc # NoExc

\* C6 witness: build stopped at the first of two components, which raised.
C6_Witness ==
    /\ Ran("build") /\ Len(Declared) = 2
    /\ last.failed = 1 /\ InvokedPrefix(1) /\ last.exc = "ComponentError"

\* C7: when the provisioning tool exits non-zero, or the output query prints
\* what cannot be parsed, in apply, destroy or tf_outputs, the Deployment
\* logs the failure and the caller gets that same error.
C7_LoggedAndReraised ==
    ((Ran("apply") \/ Ran("destroy") \/ Ran("tf_outputs"))
        /\ last.orig \in {"CalledProcessError", "JSONDecodeError"}) =>
        /\ last.exc = last.orig
        /\ \E i \in 1..Len(last.logs) : last.logs[i].src = "deployment"

\* The last call was the CLI verb bootstrap or unbootstrap.
BootstrapVerb == last.kind = "cli" /\ last.method \in {"bootstrap", "unbootstrap"}

\* The validation of the last verb's deployment name and paths failed.
ValidationFails == last.name \notin DOMAIN deployments \/ SomePathMissing

\* C13: Deployment.bootstrap() and Deployment.unbootstrap() always end with
\* NotImplementedError, having run no external command and no component
\* operation.  Through the verbs bootstrap and unbootstrap the method is
\* reached exactly when the name is loaded and every directory exists;
\* otherwise the process ends with status 1 after the validation's one error
\* record, the method not called and no NotImplementedError raised.
C13_UnimplementedAfterValidation ==
    /\ (Ran("bootstrap") \/ Ran("unbootstrap")) =>
          /\ last.exc = "NotImplementedError"
          /\ last.cmds = <<>> /\ last.calls = <<>>
    /\ BootstrapVerb =>
          IF ValidationFails
          THEN /\ last.dcalls = <<>> /\ last.exit = 1
               /\ last.exc = NoExc
               /\ Len(last.logs) = 1 /\ last.logs[1].src = "cli"
               /\ last.logs[1].kind \in {"invalid_deployment", "path_not_found"}
          ELSE /\ last.dcalls = <<last.method>> /\ last.exit = 1
               /\ last.exc = "NotImplementedError"
               /\ last.logs = <<>>

\* C13 witness: the verb unbootstrap, for a loaded deployment with two
\* components whose directories all exist, reached the method and ended with
\* the unimplemented error.
C13_Witness ==
    /\ BootstrapVerb /\ last.method = "unbootstrap" /\ last.name = "dev"
    /\ Len(Declared) = 2 /\ ~SomePathMissing
    /\ Ran("unbootstrap") /\ last.exc = "NotImplementedError" /\ last.exit = 1

\* C13 witness of the other case: the verb bootstrap named a deployment
\* whose second component directory is missing and the method was not called.
C13_WitnessMissingDir ==
    /\ BootstrapVerb /\ last.method = "bootstrap" /\ last.name = "dev"
    /\ Len(Declared) = 2 /\ CompDir("dev", 2) \notin dirs
    /\ last.dcalls = <<>> /\ last.exit = 1

\* The last call was the CLI verb aws_mfa_login.
AwsLogin == last.kind = "cli" /\ last.method = "aws_mfa_login"

\* The commands C14 names, for the deployment name the verb was given.
ExpectedAwsCmds ==
    <<[profile |-> [name |-> last.name, suffix |-> "-auth"], args |-> "sts get-session-token"],
      [profile |-> [name |-> last.name, suffix |-> ""], args |-> "configure set aws_access_key_id"],
      [profile |-> [name |-> last.name, suffix |-> ""], args |-> "configure set aws_secret_access_key"],
      [profile |-> [name |-> last.name, suffix |-> ""], args |-> "configure set aws_session_token"]>>

\* The i-th command the last call issued exited non-zero (exec_cmd logged it).
CmdFailed(i) ==
    \E n \in 1..Len(last.logs) :
        /\ last.logs[n].src = "util"
        /\ last.logs[n].kind = "CalledProcessError"
        /\ last.logs[n].detail = {last.cmds[i]}

\* C14: the commands aws_mfa_login issued are the first k, in order, of: the
\* session-token request for profile <name>-auth, then configure set of the
\* access key, the secret key and the session token for profile <name>.  A
\* command that failed is the last one issued and the process ends with
\* status 1; a configure set is issued only after the session-token request
\* exited with 0 and its reply was parsed; a verb that ends with status 0
\* issued all four; and with MFA_DEVICE_ARN unset no command is issued, the
\* verb ending with status 1.
C14_AwsCommandsInOrder ==
    AwsLogin =>
        /\ \E k \in 0..Len(ExpectedAwsCmds) : last.cmds = SubSeq(ExpectedAwsCmds, 1, k)
        /\ \A i \in 1..Len(last.cmds) :
              CmdFailed(i) => (i = Len(last.cmds) /\ last.exit = 1)
        /\ Len(last.cmds) >= 2 => (~CmdFailed(1) /\ last.exc # "JSONDecodeError")
        /\ last.exit = 0 => last.cmds = ExpectedAwsCmds
        /\ ~mfa_arn => (last.cmds = <<>> /\ last.exit = 1)
        /\ (~mfa_arn /\ ~ValidationFails) =>
              last.logs = <<LogEntry("cli", "mfa_arn_not_set", {})>>

\* C14 witness: for "dev", the session-token request and the first configure
\* set succeeded and the second configure set failed: three commands were
\* issued, the request with profile dev-auth, and the process ended with 1.
C14_Witness ==
    /\ AwsLogin /\ last.name = "dev" /\ mfa_arn
    /\ Len(last.cmds) = 3 /\ CmdFailed(3) /\ last.exit = 1
    /\ last.cmds[1].profile = [name |-> "dev", suffix |-> "-auth"]
    /\ last.cmds[3].args = "configure set aws_secret_access_key"

\* C14 witness of the whole sequence: all four commands, status 0.
C14_WitnessAllFour ==
    /\ AwsLogin /\ last.exit = 0 /\ Len(last.cmds) = 4

\* An access of tf_outputs failed in the last call of deploy or undeploy.
QueryFailed == RanOutputsLoop /\ last.orig # NoExc

\* The number of output queries of the last call that gave a mapping.
SuccessfulQueries == Len(SelectSeq(last.queries, LAMBDA q : q \in Mappings))

\* C15, as stated: when the output query fails in a call of deploy() or
\* undeploy(), no component operation of that call has been invoked.
C15_NoCallBeforeQueryFailure ==
    QueryFailed => last.calls = <<>>

\* C15, amended: in deploy() and undeploy() the i-th component operation is
\* handed the mapping of the i-th output query of the same call, which
\* succeeded.  When a query fails the call ends with an error, and the
\* operations invoked before are those of the components whose queries had
\* succeeded, in declared order: none only when it is the first query that
\* fails; several components deployed and the rest not, when a later one.
C15_CallsFollowSuccessfulQueries ==
    RanOutputsLoop =>
        /\ \A i \in 1..Len(last.calls) :
              /\ i <= Len(last.queries)
              /\ last.queries[i] \in Mappings
              /\ last.calls[i].tf = last.queries[i]
        /\ QueryFailed =>
              /\ last.exc # NoExc /\ last.failed = 0
              /\ InvokedPrefix(SuccessfulQueries)
              /\ SuccessfulQueries < Len(Declared)

\* C15 witness: deploy() on two components; the first query succeeded and
\* the first component was deployed, then the second query exited non-zero
\* and the call ended with an error, the second component not deployed.
C15_Witness ==
    /\ Ran("deploy") /\ Len(Declared) = 2
    /\ last.orig = "CalledProcessError" /\ last.exc # NoExc
    /\ Len(last.queries) = 2 /\ last.queries[1] \in Mappings /\ last.queries[2] = "none"
    /\ InvokedPrefix(1)

(***************************************************************************)
(* SpecLoad: constructing the CLI from a manifest                          *)
(***************************************************************************)
\* The largest number of deployment records in a manifest.
MaxDeployments == 2

\* Values of BPAD_TARGET: unset, a directory, a directory with a trailing
\* separator.
BaseDirs == {<<>>, <<"/", "p">>, <<"/", "p", "/">>}

\* Declared deployment paths: a relative one and an absolute one.
DeclaredPaths == {<<"a">>, <<"/", "a">>}

IsAbsolute(path) == Len(path) > 0 /\ path[1] = Sep

WebDef == [class_name |-> "app.Web", path |-> <<"w">>]
DbDef == [class_name |-> "app.Db", path |-> <<"d">>]
NopeDef == [class_name |-> "app.Nope", path |-> <<"n">>]

\* Declared component lists.
ComponentLists ==
    {<<>>, <<WebDef>>, <<WebDef, DbDef>>, <<DbDef, WebDef>>, <<DbDef, WebDef, DbDef>>,
     <<WebDef, NopeDef>>}

DeploymentRecords ==
    [name : DeclaredNames, path : DeclaredPaths, components : ComponentLists]

Manifests ==
    {[file |-> "missing", records |-> <<>>], [file |-> "malformed", records |-> <<>>]}
    \cup UNION {{[file |-> "ok", records |-> r] : r \in [1..n -> DeploymentRecords]} :
                n \in 0..MaxDeployments}

MainIdle ==
    /\ dirs = {Home}
    /\ deployments = <<>>
    /\ mfa_arn = FALSE
    /\ cwd = Home
    /\ phase = "idle"
    /\ last = NoCall

InitLoad ==
    /\ BASE_DIR \in BaseDirs
    /\ manifest \in Manifests
    /\ cli = NoCli
    /\ found = NotFound
    /\ MainIdle
    /\ EnvIdle

\* fire.Fire(CLI()): the CLI object is constructed from the manifest.
Construct ==
    /\ cli.state = "none"
    /\ LET m == main(manifest, BASE_DIR)
       IN /\ cli' = m.cli
          /\ last' = m.rec
    /\ UNCHANGED <<BASE_DIR, manifest, found, dirs, deployments, mfa_arn, cwd, phase,
                   envVars>>

\* self.deployments[deployment_name]
Lookup ==
    /\ cli.state = "constructed"
    /\ \E name \in ArgNames :
          found' = IF name \in DOMAIN cli.deployments
                   THEN [state |-> "ok", name |-> name, dep |-> cli.deployments[name]]
                   ELSE [state |-> "KeyError", name |-> name, dep |-> NoDep]
    /\ UNCHANGED <<BASE_DIR, manifest, cli, mainVars, envVars>>

NextLoad == Construct \/ Lookup

SpecLoad == InitLoad /\ [][NextLoad]_vars

\* The record of the manifest a loaded deployment was declared by.
DeclOf(dep) == manifest.records[dep.decl]

\* C5: with a non-empty base directory D, ending with the separator or not,
\* a looked-up deployment whose declared path p is not absolute has the path
\* D + separator + p; with no base directory it has p.
C5_PathResolved ==
    (found.state = "ok" /\ ~IsAbsolute(DeclOf(found.dep).path)) =>
        found.dep.path = IF BASE_DIR # <<>>
                         THEN BASE_DIR \o <<Sep>> \o DeclOf(found.dep).path
                         ELSE DeclOf(found.dep).path

\* C10: a deployment looked up by name has as many components as its record
\* declares definitions, the i-th being the instance of the i-th definition:
\* its class and its path.
C10_ComponentsInDeclaredOrder ==
    found.state = "ok" =>
        /\ found.dep.name = found.name
        /\ Len(found.dep.components) = Len(DeclOf(found.dep).components)
        /\ \A i \in 1..Len(found.dep.components) :
              /\ found.dep.components[i].path = DeclOf(found.dep).components[i].path
              /\ found.dep.components[i].cls = DeclOf(found.dep).components[i].class_name

\* C10 witness: the deployment looked up declares three components, two of
\* them the same definition, after another deployment in the manifest.
C10_Witness ==
    /\ found.state = "ok" /\ found.dep.decl = 2
    /\ DeclOf(found.dep).components = <<DbDef, WebDef, DbDef>>
    /\ Len(found.dep.components) = 3
    /\ found.dep.components[1].path = <<"d">>
    /\ found.dep.components[2].path = <<"w">>

\* The names the manifest's records declare.
ManifestNames == {manifest.records[j].name : j \in 1..Len(manifest.records)}

\* The index of the last record of the manifest that declares name n.
LastDecl(n) ==
    CHOOSE j \in 1..Len(manifest.records) :
        /\ manifest.records[j].name = n
        /\ \A k \in (j + 1)..Len(manifest.records) : manifest.records[k].name # n

\* C11: a constructed CLI maps exactly the distinct names of the manifest,
\* each to the Deployment loaded from the last record declaring that name,
\* and a lookup by name (the head of every verb) gives that entry.
C11_OneEntryPerNameLastWins ==
    /\ cli.state = "constructed" =>
          /\ DOMAIN cli.deployments = ManifestNames
          /\ \A n \in DOMAIN cli.deployments :
                /\ cli.deployments[n].name = n
                /\ cli.deployments[n].decl = LastDecl(n)
    /\ found.state = "ok" =>
          /\ found.dep = cli.deployments[found.name]
          /\ found.dep.decl = LastDecl(found.name)
    /\ found.state = "KeyError" => found.name \notin ManifestNames

\* C11 witness: the manifest declares "dev" twice with different paths and
\* the lookup of "dev" gave the deployment of the second record.
C11_Witness ==
    /\ found.state = "ok" /\ found.name = "dev"
    /\ Len(manifest.records) = 2
    /\ manifest.records[1].name = "dev" /\ manifest.records[2].name = "dev"
    /\ manifest.records[1].path # manifest.records[2].path
    /\ found.dep.decl = 2
    /\ DOMAIN cli.deployments = {"dev"}

\* C12: when loading the manifest fails at start-up (no manifest file, a
\* malformed one, a component class that cannot be resolved), the error is
\* caught, an error record is logged and the process ends with status 1: no
\* exception is left uncaught.
C12_ConfigErrorCaught ==
    cli.state = "failed" =>
        /\ last.exit = 1
        /\ last.logs # <<>>
        /\ last.exc = NoExc

(***************************************************************************)
(* SpecEnv: a component using the helpers of its base class                *)
(***************************************************************************)
\* The largest number of items of a dict handed to a helper.
MaxEntries == 2

\* The largest number of required keys.
MaxRequired == 2

Foo == <<"F", "o", "o">>
KeyNames == {Foo, <<"F", "O", "O">>, <<"f", "o", "o">>, <<"B", "A", "R">>}

PyValues == {[type |-> "str", v |-> "x"], [type |-> "int", v |-> 7],
             [type |-> "bool", v |-> TRUE]}

\* The dicts of at most n items with keys among KeyNames and values among vals.
DictsOf(n, vals) ==
    {d \in UNION {[1..m -> [k : KeyNames, v : vals]] : m \in 0..n} :
        \A i, j \in 1..Len(d) : i # j => d[i].k # d[j].k}

\* Provisioning outputs: every value is a record with a `value` field.
TfOutputs(n, vals) == DictsOf(n, {[value |-> x] : x \in vals})

KeyLists(n) == UNION {[1..m -> KeyNames] : m \in 0..n}

InitEnv ==
    /\ environ = <<>>
    /\ helper = NoHelper
    /\ MainIdle
    /\ LoadIdle

\* self._check_tfoutputs(tf_outputs, required_keys)
CheckTfOutputs ==
    /\ helper.fn = "none"
    /\ \E tf \in {None} \cup {Some(d) : d \in TfOutputs(MaxEntries, {[type |-> "str", v |-> "x"]})} :
       \E req \in {None} \cup {Some(l) : l \in KeyLists(MaxRequired)} :
          LET r == check_tfoutputs(tf, req)
          IN helper' = [fn |-> "check_tfoutputs", arg |-> tf, required |-> req,
                        exc |-> r.exc, msg_required |-> r.msg_required]
    /\ UNCHANGED <<environ, mainVars, loadVars>>

\* self._set_env_vars(keys_values)
SetEnvVars ==
    /\ helper.fn = "none"
    /\ \E kv \in {None} \cup {Some(d) : d \in DictsOf(MaxEntries, PyValues)} :
          LET r == set_env_vars(environ, kv)
          IN /\ environ' = r.env
             /\ helper' = [fn |-> "set_env_vars", arg |-> kv, required |-> None,
                           exc |-> r.exc, msg_required |-> <<>>]
    /\ UNCHANGED <<mainVars, loadVars>>

\* self._set_env_vars_from_tfoutputs(tf_outputs)
SetEnvVarsFromTfOutputs ==
    /\ helper.fn = "none"
    /\ \E tf \in {None} \cup {Some(d) : d \in TfOutputs(MaxEntries, PyValues)} :
          LET r == set_env_vars_from_tfoutputs(environ, tf)
          IN /\ environ' = r.env
             /\ helper' = [fn |-> "set_env_vars_from_tfoutputs", arg |-> tf,
                           required |-> None, exc |-> r.exc, msg_required |-> <<>>]
    /\ UNCHANGED <<mainVars, loadVars>>

\* The component goes on after the helper ended.
HelperDone ==
    /\ helper.fn # "none"
    /\ helper' = NoHelper
    /\ UNCHANGED <<environ, mainVars, loadVars>>

NextEnv == CheckTfOutputs \/ SetEnvVars \/ SetEnvVarsFromTfOutputs \/ HelperDone

SpecEnv == InitEnv /\ [][NextEnv]_vars

\* There is nothing to require: required_keys is None or empty.
NothingRequired == helper.required.none \/ helper.required.items = <<>>

\* Required key i, upper-cased, is an upper-cased key of tf_outputs.
Present(i) ==
    \E j \in 1..Len(helper.arg.items) :
        str_upper(helper.required.items[i]) = str_upper(helper.arg.items[j].k)

AllPresent == ~helper.arg.none /\ \A i \in 1..Len(helper.required.items) : Present(i)

\* The error's message names a required key that is missing.
NamesMissingKey ==
    \E i \in 1..Len(helper.required.items) :
        /\ ~Present(i)
        /\ \E n \in 1..Len(helper.msg_required) :
              helper.msg_required[n] = helper.required.items[i]

\* C8, as stated: _check_tfoutputs succeeds exactly when every required key,
\* upper-cased, is an upper-cased key of tf_outputs, and otherwise fails with
\* a KeyError naming the missing key; with no required key it succeeds for
\* every tf_outputs, an absent one too.
C8_KeyErrorOtherwise ==
    helper.fn = "check_tfoutputs" =>
        /\ helper.exc = NoExc <=> (NothingRequired \/ AllPresent)
        /\ helper.exc # NoExc => (helper.exc = "KeyError" /\ NamesMissingKey)

\* C8, amended: as stated, except that with required keys and an absent
\* tf_outputs (None) the failure is an AttributeError, not a KeyError.
C8_KeyErrorOrAttributeError ==
    helper.fn = "check_tfoutputs" =>
        /\ helper.exc = NoExc <=> (NothingRequired \/ AllPresent)
        /\ NothingRequired => helper.exc = NoExc
        /\ (helper.exc # NoExc /\ ~helper.arg.none) =>
              (helper.exc = "KeyError" /\ NamesMissingKey)
        /\ (helper.exc # NoExc /\ helper.arg.none) => helper.exc = "AttributeError"

\* C8 witness: the required key "Foo" was found in outputs whose only key is
\* "FOO".
C8_Witness ==
    /\ helper.fn = "check_tfoutputs" /\ helper.exc = NoExc
    /\ helper.required = Some(<<Foo>>)
    /\ ~helper.arg.none /\ Len(helper.arg.items) = 1
    /\ helper.arg.items[1].k = <<"F", "O", "O">>

\* No two keys of the helper's mapping are the same once upper-cased.
KeysDistinctUpper ==
    \A i, j \in 1..Len(helper.arg.items) :
        i # j => str_upper(helper.arg.items[i].k) # str_upper(helper.arg.items[j].k)

\* C9, for mappings whose keys stay distinct when upper-cased: neither helper
\* fails, whatever the values' types; after _set_env_vars_from_tfoutputs the
\* environment maps upper(k) to str(v["value"]), and after _set_env_vars it
\* maps upper(k) to str(v).
C9_BothStringify ==
    (helper.fn \in {"set_env_vars", "set_env_vars_from_tfoutputs"} /\ KeysDistinctUpper) =>
        /\ helper.exc = NoExc
        /\ \A i \in 1..Len(helper.arg.items) :
              LET k == str_upper(helper.arg.items[i].k)
                  v == helper.arg.items[i].v
              IN /\ k \in DOMAIN environ
                 /\ environ[k] = IF helper.fn = "set_env_vars" THEN py_str(v)
                                 ELSE py_str(v.value)

====
